---- MODULE Spec2Model ----
(***************************************************************************)
(* MK Processor entry point (src/main.py): module import guard, main(),    *)
(* check_for_updates(), show_update_dialog()/start_update() and the        *)
(* __main__ wrapper, as one state machine.                                 *)
(*                                                                         *)
(* Collaborators that live outside main.py (configuration store, plugin    *)
(* manager, shell, update client, file system, the user) are inputs: each  *)
(* call draws its outcome from a small set with \E.                        *)
(* Python values are written as strings: "True"/"False" for the toggle,    *)
(* "unset" for a key the configuration does not hold.                      *)
(***************************************************************************)
EXTENDS Naturals, Integers, Sequences, FiniteSets, TLC

\* ---------------------------------------------------------------- bounds
\* how many times the configured version may be rewritten while the event
\* loop runs
MaxConfigChanges == 1

\* ------------------------------------------------------- program literals
Unset == "unset"
DefaultVersion == "3.0.6"
DefaultUpdateUrl == "https://example.com/updates/mk_processor.json"
DefaultReleaseNotes == "No release notes available."
DefaultCheckUpdates == "True"

Versions == {"3.0.6", "3.0.7"}
Urls == {"https://mirror.example.org/mk.json"}
Toggles == {"True", "False"}

\* ------------------------------------------------------------ config.get
\* config.get(section, key, default): a missing key yields the default
ConfigStates ==
  [check_updates : Toggles \cup {Unset},
   version       : Versions \cup {Unset},
   update_url    : Urls \cup {Unset}]

config_get(cfg, key, default) ==
  IF cfg[key] = Unset THEN default ELSE cfg[key]

\* Python truthiness of the values that occur here
Truthy(v) == v \notin {"False", "None", "", Unset}

\* ------------------------------------------------- update client outcomes
\* what Updater.check_for_updates() can hand back: an UpdateInfo dict, a
\* falsy value (None or an empty dict), or an exception
NoInfo ==
  [kind |-> "none", version |-> "", release_notes |-> "", download_ref |-> ""]
EmptyInfo ==
  [kind |-> "empty", version |-> "", release_notes |-> "", download_ref |-> ""]
RaisedInfo ==
  [kind |-> "raise", version |-> "", release_notes |-> "", download_ref |-> ""]
FalseInfo ==
  [kind |-> "False", version |-> "", release_notes |-> "", download_ref |-> ""]
UpdateInfos ==
  { [kind |-> "info", version |-> "3.1.0", release_notes |-> "Bug fixes",
     download_ref |-> "https://example.com/updates/3.1.0.zip"],
    [kind |-> "info", version |-> "3.2.0", release_notes |-> Unset,
     download_ref |-> "https://example.com/updates/3.2.0.zip"] }
ClientCheckResults == UpdateInfos \cup {NoInfo, EmptyInfo, RaisedInfo}

InfoTruthy(info) == info.kind = "info"

\* download_update(): an artifact path, a falsy value, or an exception
DownloadResults == {"/tmp/update.zip", "", "None", "raise"}
\* install_update(file): True, a falsy value, or an exception
InstallResults == {"True", "False", "None", "raise"}

\* app.exec_() returns the code handed to QApplication.exit(); quit() and
\* closing the last window give 0
ExecCodes == {0, 1, 2}

Counters ==
  {"QApplication", "setup_exception_handling", "get_config", "exists",
   "makedirs", "dir_warning", "PluginManager", "load_plugins", "MainWindow",
   "show", "check_for_updates", "Updater_check", "client_check",
   "singleShot", "show_update_dialog", "Updater_flow", "download_update",
   "install_update", "update_warning", "console", "critical_dialog",
   "excepthook", "unhandled"}

VARIABLES
  pc,            \* position of the process
  runAsMain,     \* __name__ == "__main__"
  config,        \* the configuration store
  cfgChanges,    \* rewrites of the configured version so far
  folderExists,  \* os.path.exists(web_folder) at line 73: "yes", "no", or
                 \* "unknown" before the test
  calls,         \* how often each collaborator call / UI surface happened
  importFailed,  \* which import raised: "none", "toolkit", "collaborator"
  makedirsRaised,\* os.makedirs raised in this run
  raised,        \* the call in main() whose exception nothing in main()
                 \* caught ("none" if none)
  caught,        \* the exception the __main__ wrapper caught ("none" if none)
  clientResult,  \* what Updater.check_for_updates() gave ("unset" kind before)
  update_info,   \* main()'s update_info
  checkArgs,     \* arguments of the Updater built by check_for_updates()
  timerPending,  \* a singleShot is scheduled and has not fired
  flow,          \* state of the update flow
  shown,         \* what the prompt displays
  flowArgs,      \* arguments of the Updater built by start_update()
  update_file,   \* start_update()'s update_file
  installArg,    \* the argument install_update was called with
  installResult, \* what install_update returned
  twin,          \* a second run of the program, see NoTwin
  execCode,      \* what app.exec_() returned (-1 before)
  exitStatus     \* process exit status (-1 while running or if none)

vars == <<pc, runAsMain, config, cfgChanges, folderExists, calls, importFailed,
          makedirsRaised, raised, caught, clientResult, update_info, checkArgs,
          timerPending, flow, shown, flowArgs, update_file, installArg,
          installResult, twin, execCode, exitStatus>>

NotCalled ==
  [kind |-> "unset", version |-> "", release_notes |-> "", download_ref |-> ""]
NoArgs == <<>>
NothingShown == [candidate |-> "", current |-> "", notes |-> ""]

\* The twin is the same program run a second time with the same
\* configuration apart from the manifest URL, the same user and the same
\* collaborator outcomes, except that a successful check hands it an
\* UpdateInfo of its own.  It records what that run displays and what it
\* hands to the update client.
NoTwin ==
  [update_url |-> Unset, update_info |-> NotCalled, checkArgs |-> NoArgs,
   shown |-> NothingShown, flowArgs |-> NoArgs, installArg |-> Unset]

\* what the client's check gives the twin when it gives this run result
TwinResults(result) == IF InfoTruthy(result) THEN UpdateInfos ELSE {result}

Bump(c, name) == [c EXCEPT ![name] = @ + 1]

Init ==
  /\ pc = "toolkit_import"
  /\ runAsMain \in BOOLEAN
  /\ config \in ConfigStates
  /\ cfgChanges = 0
  /\ folderExists = "unknown"
  /\ calls = [n \in Counters |-> 0]
  /\ importFailed = "none"
  /\ makedirsRaised = FALSE
  /\ raised = "none"
  /\ caught = "none"
  /\ clientResult = NotCalled
  /\ update_info = NotCalled
  /\ checkArgs = NoArgs
  /\ timerPending = FALSE
  /\ flow = "none"
  /\ shown = NothingShown
  /\ flowArgs = NoArgs
  /\ update_file = Unset
  /\ installArg = Unset
  /\ installResult = Unset
  /\ twin = NoTwin
  /\ execCode = -1
  /\ exitStatus = -1


envVars == <<runAsMain, config, cfgChanges, folderExists>>
checkVars == <<clientResult, update_info, checkArgs, timerPending>>
flowVars == <<flow, shown, flowArgs, update_file, installArg, installResult>>
exitVars == <<execCode, exitStatus>>
failVars == <<importFailed, makedirsRaised, raised, caught>>

\* ------------------------------------------------ module level, lines 7-39
\* line 10: the toolkit import is outside the guard; if it raises, the
\* interpreter prints the traceback and exits with status 1
ImportToolkit ==
  /\ pc = "toolkit_import"
  /\ \E ok \in BOOLEAN :
       IF ok
         THEN /\ pc' = "imports"
              /\ UNCHANGED <<calls, importFailed, exitVars>>
         ELSE /\ pc' = "exited"
              /\ importFailed' = "toolkit"
              /\ calls' = Bump(calls, "unhandled")
              /\ exitStatus' = 1
              /\ UNCHANGED execCode
  /\ UNCHANGED <<envVars, makedirsRaised, raised, caught, checkVars, flowVars,
                 twin>>

\* lines 19-29: the guarded collaborator imports; on failure the error and
\* the traceback are printed
ImportModules ==
  /\ pc = "imports"
  /\ \E ok \in BOOLEAN :
       IF ok
         THEN /\ pc' = "entry"
              /\ UNCHANGED <<calls, importFailed>>
         ELSE /\ importFailed' = "collaborator"
              /\ calls' = Bump(calls, "console")
              /\ pc' = IF runAsMain THEN "import_dialog" ELSE "entry"
  /\ UNCHANGED <<envVars, makedirsRaised, raised, caught, checkVars, flowVars,
                 exitVars,
                 twin>>

\* mutant: the guard shows its dialog but lacks the sys.exit(1) of line 39
ImportErrorExit_noExit ==
  /\ pc = "import_dialog"
  /\ calls' = Bump(Bump(calls, "QApplication"), "critical_dialog")
  /\ pc' = "entry"
  /\ UNCHANGED <<envVars, failVars, checkVars, flowVars, exitVars,
                 twin>>

\* lines 30-39: 'PyQt5' in sys.modules holds here, because line 10 passed
ImportErrorExit ==
  /\ pc = "import_dialog"
  /\ calls' = Bump(Bump(calls, "QApplication"), "critical_dialog")
  /\ exitStatus' = 1
  /\ pc' = "exited"
  /\ UNCHANGED <<envVars, failVars, checkVars, flowVars, execCode,
                 twin>>

\* line 165: only the main program runs main()
EntryPoint ==
  /\ pc = "entry"
  /\ pc' = IF runAsMain THEN "m_app" ELSE "imported"
  /\ UNCHANGED <<envVars, calls, failVars, checkVars, flowVars, exitVars,
                 twin>>

\* ------------------------------------------------------ main(), lines 60-106
\* lines 63-65
CreateApp ==
  /\ pc = "m_app"
  /\ calls' = Bump(calls, "QApplication")
  /\ pc' = "m_reporter"
  /\ UNCHANGED <<envVars, failVars, checkVars, flowVars, exitVars,
                 twin>>

\* mutant: main() forgets setup_exception_handling(app)
InstallReporter_skipped ==
  /\ pc = "m_reporter"
  /\ pc' = "m_config"
  /\ UNCHANGED <<envVars, calls, failVars, checkVars, flowVars, exitVars,
                 twin>>

\* line 68
InstallReporter ==
  /\ pc = "m_reporter"
  /\ calls' = Bump(calls, "setup_exception_handling")
  /\ pc' = "m_config"
  /\ UNCHANGED <<envVars, failVars, checkVars, flowVars, exitVars,
                 twin>>

\* mutant: os.makedirs called without the test of line 73
CheckWebFolder_alwaysCreates ==
  /\ pc = "m_config"
  /\ \E exists \in BOOLEAN :
       /\ calls' = Bump(Bump(calls, "get_config"), "exists")
       /\ folderExists' = IF exists THEN "yes" ELSE "no"
  /\ pc' = "m_makedirs"
  /\ UNCHANGED <<runAsMain, config, cfgChanges, failVars, checkVars,
                 flowVars, exitVars,
                 twin>>

\* lines 71-73: read the web folder from configuration, test whether it is
\* there
CheckWebFolder ==
  /\ pc = "m_config"
  /\ \E exists \in BOOLEAN :
       /\ calls' = Bump(Bump(calls, "get_config"), "exists")
       /\ folderExists' = IF exists THEN "yes" ELSE "no"
       /\ pc' = IF exists THEN "m_icon" ELSE "m_makedirs"
  /\ UNCHANGED <<runAsMain, config, cfgChanges, failVars, checkVars,
                 flowVars, exitVars,
                 twin>>

\* mutant: os.makedirs outside the try, its exception leaves main()
MakeDirs_propagates ==
  /\ pc = "m_makedirs"
  /\ calls' = Bump(calls, "makedirs")
  /\ \E raises \in BOOLEAN :
       IF raises
         THEN /\ makedirsRaised' = TRUE
              /\ pc' = "wrapper"
         ELSE /\ pc' = "m_icon"
              /\ UNCHANGED makedirsRaised
  /\ UNCHANGED <<envVars, importFailed, raised, caught, checkVars, flowVars,
                 exitVars,
                 twin>>

\* lines 74-84: os.makedirs in a try; an exception becomes a warning box
MakeDirs ==
  /\ pc = "m_makedirs"
  /\ \E raises \in BOOLEAN :
       IF raises
         THEN /\ makedirsRaised' = TRUE
              /\ calls' = Bump(Bump(calls, "makedirs"), "dir_warning")
         ELSE /\ calls' = Bump(calls, "makedirs")
              /\ UNCHANGED makedirsRaised
  /\ pc' = "m_icon"
  /\ UNCHANGED <<envVars, importFailed, raised, caught, checkVars, flowVars,
                 exitVars,
                 twin>>

\* lines 87-89: the icon is set when the file is there; nothing observable
SetIcon ==
  /\ pc = "m_icon"
  /\ pc' = "m_plugin_manager"
  /\ UNCHANGED <<envVars, calls, failVars, checkVars, flowVars, exitVars,
                 twin>>

\* line 92: PluginManager() is not in a try
NewPluginManager ==
  /\ pc = "m_plugin_manager"
  /\ calls' = Bump(calls, "PluginManager")
  /\ \E raises \in BOOLEAN :
       IF raises
         THEN /\ raised' = "PluginManager"
              /\ pc' = "wrapper"
         ELSE /\ pc' = "m_load_plugins"
              /\ UNCHANGED raised
  /\ UNCHANGED <<envVars, importFailed, makedirsRaised, caught, checkVars,
                 flowVars, exitVars,
                 twin>>

\* mutant: load_plugins() wrapped in a try that swallows the exception
LoadPlugins_swallows ==
  /\ pc = "m_load_plugins"
  /\ calls' = Bump(calls, "load_plugins")
  /\ \E raises \in BOOLEAN :
       raised' = IF raises THEN "load_plugins" ELSE raised
  /\ pc' = "m_window"
  /\ UNCHANGED <<envVars, importFailed, makedirsRaised, caught, checkVars,
                 flowVars, exitVars,
                 twin>>

\* line 93: load_plugins() is not in a try
LoadPlugins ==
  /\ pc = "m_load_plugins"
  /\ calls' = Bump(calls, "load_plugins")
  /\ \E raises \in BOOLEAN :
       IF raises
         THEN /\ raised' = "load_plugins"
              /\ pc' = "wrapper"
         ELSE /\ pc' = "m_window"
              /\ UNCHANGED raised
  /\ UNCHANGED <<envVars, importFailed, makedirsRaised, caught, checkVars,
                 flowVars, exitVars,
                 twin>>

\* line 96
CreateWindow ==
  /\ pc = "m_window"
  /\ calls' = Bump(calls, "MainWindow")
  /\ pc' = "m_show"
  /\ UNCHANGED <<envVars, failVars, checkVars, flowVars, exitVars,
                 twin>>

\* mutant: main() goes from the constructor to the update check without
\* window.show()
ShowWindow_omitted ==
  /\ pc = "m_show"
  /\ pc' = "m_check"
  /\ UNCHANGED <<envVars, calls, failVars, checkVars, flowVars, exitVars,
                 twin>>

\* line 97
ShowWindow ==
  /\ pc = "m_show"
  /\ calls' = Bump(calls, "show")
  /\ pc' = "m_check"
  /\ UNCHANGED <<envVars, failVars, checkVars, flowVars, exitVars,
                 twin>>


\* ------------------------------------------- check_for_updates(), lines 42-57
\* mutant: check_for_updates() without the toggle test of lines 45-46
check_for_updates_ignoresToggle(cfg, result) ==
  LET current_version == config_get(cfg, "version", DefaultVersion)
      update_url == config_get(cfg, "update_url", DefaultUpdateUrl)
      built == <<current_version, update_url>>
  IN  IF result.kind = "raise"
        THEN [ret |-> NotCalled, args |-> built, called |-> TRUE,
              raised |-> TRUE]
        ELSE [ret |-> IF InfoTruthy(result) THEN result ELSE FalseInfo,
              args |-> built, called |-> TRUE, raised |-> FALSE]

\* The function as a value: what it returns (ret), the arguments of the
\* Updater it built (args, NoArgs if none), whether the client's check step
\* was invoked (called) and whether its exception left the function (raised).
\* result is what Updater.check_for_updates() does when it is called.
check_for_updates(cfg, result) ==
  IF ~Truthy(config_get(cfg, "check_updates", DefaultCheckUpdates))
    THEN [ret |-> FalseInfo, args |-> NoArgs, called |-> FALSE,
          raised |-> FALSE]
    ELSE LET current_version == config_get(cfg, "version", DefaultVersion)
             update_url == config_get(cfg, "update_url", DefaultUpdateUrl)
             built == <<current_version, update_url>>
         IN  IF result.kind = "raise"
               THEN [ret |-> NotCalled, args |-> built, called |-> TRUE,
                     raised |-> TRUE]
               ELSE [ret |-> IF InfoTruthy(result) THEN result ELSE FalseInfo,
                     args |-> built, called |-> TRUE, raised |-> FALSE]

\* line 100: main() calls check_for_updates(); nothing catches what it raises
CheckForUpdates ==
  /\ pc = "m_check"
  /\ \E result \in ClientCheckResults :
       LET out == check_for_updates(config, result)
       IN  /\ \E url2 \in Urls \cup {Unset}, result2 \in TwinResults(result) :
                LET out2 == check_for_updates(
                              [config EXCEPT !.update_url = url2], result2)
                IN  twin' = [twin EXCEPT !.update_url = url2,
                                         !.checkArgs = out2.args,
                                         !.update_info = out2.ret]
           /\ calls' =
                [calls EXCEPT
                   !["check_for_updates"] = @ + 1,
                   !["get_config"] = @ + 1,
                   !["Updater_check"] = @ + (IF out.args = NoArgs THEN 0 ELSE 1),
                   !["client_check"] = @ + (IF out.called THEN 1 ELSE 0)]
           /\ checkArgs' = out.args
           /\ clientResult' = IF out.called THEN result ELSE clientResult
           /\ IF out.raised
                THEN /\ raised' = "check_for_updates"
                     /\ pc' = "wrapper"
                     /\ UNCHANGED update_info
                ELSE /\ update_info' = out.ret
                     /\ pc' = "m_schedule"
                     /\ UNCHANGED raised
  /\ UNCHANGED <<envVars, importFailed, makedirsRaised, caught, timerPending,
                 flowVars, exitVars>>

\* mutant: the timer scheduled without the test of line 101
SchedulePrompt_always ==
  /\ pc = "m_schedule"
  /\ calls' = Bump(calls, "singleShot")
  /\ timerPending' = TRUE
  /\ pc' = "m_exec"
  /\ UNCHANGED <<envVars, failVars, clientResult, update_info, checkArgs,
                 flowVars, exitVars,
                 twin>>

\* lines 101-103: one QTimer.singleShot when update_info is truthy
SchedulePrompt ==
  /\ pc = "m_schedule"
  /\ IF InfoTruthy(update_info)
       THEN /\ calls' = Bump(calls, "singleShot")
            /\ timerPending' = TRUE
       ELSE UNCHANGED <<calls, timerPending>>
  /\ pc' = "m_exec"
  /\ UNCHANGED <<envVars, failVars, clientResult, update_info, checkArgs,
                 flowVars, exitVars,
                 twin>>


\* ------------------------------------------ app.exec_(), line 106: the loop
\* show_update_dialog(), lines 113-138: what the dialog displays
show_update_dialog(info, cfg) ==
  [candidate |-> info.version,
   current   |-> config_get(cfg, "version", DefaultVersion),
   notes     |-> IF info.release_notes = Unset
                   THEN DefaultReleaseNotes ELSE info.release_notes]

\* mutant: the timer expires without running its callback (the callable
\* is gone by then)
TimerFires_dropped ==
  /\ pc = "m_exec"
  /\ timerPending
  /\ timerPending' = FALSE
  /\ UNCHANGED <<pc, envVars, calls, failVars, clientResult, update_info,
                 checkArgs, flowVars, exitVars,
                 twin>>

\* mutant: a repeating timer instead of QTimer.singleShot
TimerFires_repeating ==
  /\ pc = "m_exec"
  /\ timerPending
  /\ flow \notin {"Downloading", "Installing"}
  /\ calls' = Bump(Bump(calls, "show_update_dialog"), "get_config")
  /\ shown' = show_update_dialog(update_info, config)
  /\ twin' = [twin EXCEPT
                !.shown = show_update_dialog(twin.update_info, config)]
  /\ flow' = "Offered"
  /\ UNCHANGED <<pc, envVars, failVars, checkVars, flowArgs, update_file,
                 installArg, installResult, exitVars>>

\* the single-shot timer of line 103 fires while the loop runs: the dialog
\* of lines 109-162 opens
TimerFires ==
  /\ pc = "m_exec"
  /\ timerPending
  /\ timerPending' = FALSE
  /\ calls' = Bump(Bump(calls, "show_update_dialog"), "get_config")
  /\ shown' = show_update_dialog(update_info, config)
  /\ twin' = [twin EXCEPT
                !.shown = show_update_dialog(twin.update_info, config)]
  /\ flow' = "Offered"
  /\ UNCHANGED <<pc, envVars, failVars, clientResult, update_info, checkArgs,
                 flowArgs, update_file, installArg,
                 installResult, exitVars>>

\* mutant: "Later" connected to a slot that also starts the download
Later_downloads ==
  /\ pc = "m_exec"
  /\ flow = "Offered"
  /\ flow' = "Declined"
  /\ flowArgs' = <<config_get(config, "version", DefaultVersion)>>
  /\ calls' = [calls EXCEPT !["Updater_flow"] = @ + 1,
                            !["download_update"] = @ + 1]
  /\ UNCHANGED <<pc, envVars, failVars, checkVars, shown, update_file,
                 installArg, installResult, exitVars,
                 twin>>

\* line 141: "Later" is connected to dialog.reject
Later ==
  /\ pc = "m_exec"
  /\ flow = "Offered"
  /\ flow' = "Declined"
  /\ UNCHANGED <<pc, envVars, calls, failVars, checkVars, shown, flowArgs,
                 update_file, installArg,
                 installResult, exitVars,
                 twin>>

\* mutant: the flow's Updater built like the one of line 51, for the
\* offered version and the configured manifest URL
start_update_Updater_fromOffer(cfg, info) ==
  <<info.version, config_get(cfg, "update_url", DefaultUpdateUrl)>>

\* line 147: the arguments of the Updater that start_update() builds.  The
\* closure sees update_info and the configuration; it uses the configured
\* version alone.
start_update_Updater(cfg, info) ==
  <<config_get(cfg, "version", DefaultVersion)>>

\* mutant: start_update() reuses the version the check step read
StartUpdate_cachedVersion ==
  /\ pc = "m_exec"
  /\ flow = "Offered"
  /\ flowArgs' = <<checkArgs[1]>>
  /\ twin' = [twin EXCEPT !.flowArgs = <<twin.checkArgs[1]>>]
  /\ calls' = [calls EXCEPT !["Updater_flow"] = @ + 1,
                            !["download_update"] = @ + 1]
  /\ flow' = "Downloading"
  /\ UNCHANGED <<pc, envVars, failVars, checkVars, shown, update_file,
                 installArg, installResult, exitVars>>

\* lines 143-148: "Update Now" runs start_update(): the dialog is accepted,
\* an Updater is built from the configured version alone, download_update()
\* is called on the loop's thread
StartUpdate ==
  /\ pc = "m_exec"
  /\ flow = "Offered"
  /\ flowArgs' = start_update_Updater(config, update_info)
  /\ twin' = [twin EXCEPT
                !.flowArgs = start_update_Updater(
                               [config EXCEPT !.update_url = twin.update_url],
                               twin.update_info)]
  /\ calls' = [calls EXCEPT !["get_config"] = @ + 1,
                            !["Updater_flow"] = @ + 1,
                            !["download_update"] = @ + 1]
  /\ flow' = "Downloading"
  /\ UNCHANGED <<pc, envVars, failVars, checkVars, shown, update_file,
                 installArg, installResult, exitVars>>

\* mutant: start_update() without the "if update_file" test of line 150
DownloadReturns_alwaysInstalls ==
  /\ pc = "m_exec"
  /\ flow = "Downloading"
  /\ \E d \in DownloadResults :
       IF d = "raise"
         THEN /\ flow' = "Raised"
              /\ calls' = Bump(calls, "excepthook")
              /\ UNCHANGED <<update_file, installArg, twin>>
         ELSE /\ update_file' = d
              /\ flow' = "Installing"
              /\ installArg' = d
              /\ twin' = [twin EXCEPT !.installArg = d]
              /\ calls' = Bump(calls, "install_update")
  /\ UNCHANGED <<pc, envVars, failVars, checkVars, shown, flowArgs,
                 installResult, exitVars>>

\* lines 148-151: download_update() returns; install_update(update_file) is
\* called only for a truthy update_file.  start_update() has no try: an
\* exception leaves the slot and reaches the installed exception hook.
DownloadReturns ==
  /\ pc = "m_exec"
  /\ flow = "Downloading"
  /\ \E d \in DownloadResults :
       IF d = "raise"
         THEN /\ flow' = "Raised"
              /\ calls' = Bump(calls, "excepthook")
              /\ UNCHANGED <<update_file, installArg, twin>>
         ELSE /\ update_file' = d
              /\ IF Truthy(d)
                   THEN /\ flow' = "Installing"
                        /\ installArg' = d
                        /\ twin' = [twin EXCEPT !.installArg = d]
                        /\ calls' = Bump(calls, "install_update")
                   ELSE /\ flow' = "DownloadFailed"
                        /\ UNCHANGED <<calls, installArg, twin>>
  /\ UNCHANGED <<pc, envVars, failVars, checkVars, shown, flowArgs,
                 installResult, exitVars>>

\* mutant: the test of line 152 inverted ("if result")
InstallReturns_inverted ==
  /\ pc = "m_exec"
  /\ flow = "Installing"
  /\ \E result \in InstallResults :
       IF result = "raise"
         THEN /\ flow' = "Raised"
              /\ calls' = Bump(calls, "excepthook")
              /\ UNCHANGED installResult
         ELSE /\ installResult' = result
              /\ IF Truthy(result)
                   THEN /\ flow' = "Installed"
                        /\ calls' = Bump(calls, "update_warning")
                   ELSE /\ flow' = "InstallFailed"
                        /\ UNCHANGED calls
  /\ UNCHANGED <<pc, envVars, failVars, checkVars, shown, flowArgs,
                 update_file, installArg, exitVars,
                 twin>>

\* mutant: start_update() without the warning of lines 152-157
InstallReturns_silent ==
  /\ pc = "m_exec"
  /\ flow = "Installing"
  /\ \E result \in InstallResults :
       IF result = "raise"
         THEN /\ flow' = "Raised"
              /\ calls' = Bump(calls, "excepthook")
              /\ UNCHANGED installResult
         ELSE /\ installResult' = result
              /\ flow' = IF ~Truthy(result) THEN "InstallFailed"
                                            ELSE "Installed"
              /\ UNCHANGED calls
  /\ UNCHANGED <<pc, envVars, failVars, checkVars, shown, flowArgs,
                 update_file, installArg, exitVars,
                 twin>>

\* lines 151-157: install_update() returns; a falsy result shows the
\* "Update Failed" warning
InstallReturns ==
  /\ pc = "m_exec"
  /\ flow = "Installing"
  /\ \E result \in InstallResults :
       IF result = "raise"
         THEN /\ flow' = "Raised"
              /\ calls' = Bump(calls, "excepthook")
              /\ UNCHANGED installResult
         ELSE /\ installResult' = result
              /\ IF ~Truthy(result)
                   THEN /\ flow' = "InstallFailed"
                        /\ calls' = Bump(calls, "update_warning")
                   ELSE /\ flow' = "Installed"
                        /\ UNCHANGED calls
  /\ UNCHANGED <<pc, envVars, failVars, checkVars, shown, flowArgs,
                 update_file, installArg, exitVars,
                 twin>>

\* the configured version is rewritten while the loop runs (settings saved
\* by the shell)
ConfigChanges ==
  /\ pc = "m_exec"
  /\ flow \in {"none", "Offered"}
  /\ cfgChanges < MaxConfigChanges
  /\ \E v \in (Versions \cup {Unset}) \ {config.version} :
       config' = [config EXCEPT !.version = v]
  /\ cfgChanges' = cfgChanges + 1
  /\ UNCHANGED <<pc, runAsMain, folderExists, calls, failVars, checkVars, flowVars,
                 exitVars,
                 twin>>

\* line 106: the loop ends (last window closed, quit() or exit(code)) and
\* app.exec_() returns the code; not while a slot blocks the loop's thread.
\* An open dialog is closed with the loop; a pending timer is dropped.
Quit ==
  /\ pc = "m_exec"
  /\ flow \notin {"Downloading", "Installing"}
  /\ \E code \in ExecCodes : execCode' = code
  /\ flow' = IF flow = "Offered" THEN "Closed" ELSE flow
  /\ pc' = "m_return"
  /\ UNCHANGED <<envVars, calls, failVars, checkVars, shown, flowArgs,
                 update_file, installArg,
                 installResult, exitStatus,
                 twin>>

\* ------------------------------------------ __main__ block, lines 165-189
\* mutant: main() called without handing its result to sys.exit
SysExit_dropsCode ==
  /\ pc = "m_return"
  /\ exitStatus' = 0
  /\ pc' = "exited"
  /\ UNCHANGED <<envVars, calls, failVars, checkVars, flowVars, execCode,
                 twin>>

\* line 167: sys.exit(main())
SysExit ==
  /\ pc = "m_return"
  /\ exitStatus' = execCode
  /\ pc' = "exited"
  /\ UNCHANGED <<envVars, calls, failVars, checkVars, flowVars, execCode,
                 twin>>

\* mutant: the dialog attempt of lines 175-184 without its try: what it
\* raises leaves the wrapper unhandled
Wrapper_dialogUnguarded ==
  /\ pc = "wrapper"
  /\ \E dialogRaises \in BOOLEAN :
       calls' =
         [calls EXCEPT
            !["console"] = @ + 1,
            !["QApplication"] = @ + (IF calls["QApplication"] = 0 THEN 1 ELSE 0),
            !["critical_dialog"] = @ + (IF dialogRaises THEN 0 ELSE 1),
            !["unhandled"] = @ + (IF dialogRaises THEN 1 ELSE 0)]
  /\ caught' = raised
  /\ exitStatus' = 1
  /\ pc' = "exited"
  /\ UNCHANGED <<envVars, importFailed, makedirsRaised, raised, checkVars,
                 flowVars, execCode,
                 twin>>

\* lines 168-189: an exception left main(): print it, try a critical dialog
\* (with a new QApplication if there is no instance), swallow whatever the
\* dialog raises, sys.exit(1)
Wrapper ==
  /\ pc = "wrapper"
  /\ \E dialogRaises \in BOOLEAN :
       calls' =
         [calls EXCEPT
            !["console"] = @ + 1,
            !["QApplication"] = @ + (IF calls["QApplication"] = 0 THEN 1 ELSE 0),
            !["critical_dialog"] = @ + (IF dialogRaises THEN 0 ELSE 1)]
  /\ caught' = raised
  /\ exitStatus' = 1
  /\ pc' = "exited"
  /\ UNCHANGED <<envVars, importFailed, makedirsRaised, raised, checkVars,
                 flowVars, execCode,
                 twin>>

\* ------------------------------------------------------------ the program
Next ==
  \/ ImportToolkit
  \/ ImportModules
  \/ ImportErrorExit
  \/ EntryPoint
  \/ CreateApp
  \/ InstallReporter
  \/ CheckWebFolder
  \/ MakeDirs
  \/ SetIcon
  \/ NewPluginManager
  \/ LoadPlugins
  \/ CreateWindow
  \/ ShowWindow
  \/ CheckForUpdates
  \/ SchedulePrompt
  \/ TimerFires
  \/ Later
  \/ StartUpdate
  \/ DownloadReturns
  \/ InstallReturns
  \/ ConfigChanges
  \/ Quit
  \/ SysExit
  \/ Wrapper

Spec == Init /\ [][Next]_vars

TypeOK ==
  /\ pc \in {"toolkit_import", "imports", "import_dialog", "entry",
             "imported", "m_app", "m_reporter", "m_config", "m_makedirs",
             "m_icon", "m_plugin_manager", "m_load_plugins", "m_window",
             "m_show", "m_check", "m_schedule", "m_exec", "m_return",
             "wrapper", "exited"}
  /\ config \in ConfigStates
  /\ flow \in {"none", "Offered", "Declined", "Closed", "Downloading",
               "DownloadFailed", "Installing", "InstallFailed", "Installed",
               "Raised"}
  /\ exitStatus \in {-1} \cup ExecCodes
  /\ folderExists \in {"unknown", "yes", "no"}
  /\ \A n \in Counters : calls[n] \in 0..4


\* ------------------------------------------------------------- positions
\* positions of main() after window.show() returned
AfterShow == {"m_check", "m_schedule", "m_exec", "m_return"}
\* positions of main() after setup_exception_handling(app) returned
AfterReporter ==
  {"m_config", "m_makedirs", "m_icon", "m_plugin_manager", "m_load_plugins",
   "m_window", "m_show"} \cup AfterShow
PluginFailures == {"PluginManager", "load_plugins"}
ToggleOff == ~Truthy(config_get(config, "check_updates", DefaultCheckUpdates))

\* ----------------------------------------------------------------- claims
\* C1: whenever PluginManager() or load_plugins() has raised, the exception
\* is on its way to, or was caught by, the __main__ wrapper, the window was
\* neither built nor shown, and once the process has exited its status is 1
\* and the wrapper caught exactly that exception.
C1_PluginFailureIsFatal ==
  raised \in PluginFailures =>
    /\ pc \in {"wrapper", "exited"}
    /\ calls["MainWindow"] = 0
    /\ calls["show"] = 0
    /\ pc = "exited" => (exitStatus = 1 /\ caught = raised
                          /\ calls["console"] = 1)

C1_Witness ==
  /\ raised = "load_plugins"
  /\ pc = "exited"
  /\ exitStatus = 1
  /\ calls["show"] = 0

\* C2: once os.makedirs has raised, exactly one directory warning was shown,
\* main() went on to the plugin step, the exception the wrapper sees (if any)
\* is never the makedirs one but that of a later call, and in every run the
\* plugin manager does not stop, the window is built and shown exactly once.
C2_MakedirsFailureIsNotFatal ==
  makedirsRaised =>
    /\ calls["makedirs"] = 1
    /\ calls["dir_warning"] = 1
    /\ pc # "m_makedirs"
    /\ (pc = "wrapper" \/ caught # "none") => raised # "none"
    /\ pc \notin {"m_icon", "m_plugin_manager"} => calls["PluginManager"] = 1
    /\ (pc \notin {"m_icon", "m_plugin_manager", "m_load_plugins"}
          /\ raised # "PluginManager") => calls["load_plugins"] = 1
    /\ calls["show"] <= 1
    /\ (pc \in AfterShow \/ (pc \in {"wrapper", "exited"}
                              /\ raised \notin PluginFailures))
         => (calls["MainWindow"] = 1 /\ calls["show"] = 1)

C2_Witness ==
  /\ makedirsRaised
  /\ pc = "exited"
  /\ raised = "none"
  /\ calls["dir_warning"] = 1
  /\ calls["load_plugins"] = 1
  /\ calls["show"] = 1

\* C3 as stated: in a run whose check returned an UpdateInfo, at most one
\* prompt is scheduled, it never fires before show(), and by the end of the
\* run it has fired exactly once.
C3_Original ==
  InfoTruthy(update_info) =>
    /\ calls["singleShot"] <= 1
    /\ calls["show_update_dialog"] >= 1 => calls["show"] = 1
    /\ pc = "exited" => calls["show_update_dialog"] = 1

\* C3 amended: in a run whose check returned an UpdateInfo, exactly one
\* prompt is scheduled (once main() is past line 103), the callback fires at
\* most once and only after show(); it has fired exactly once unless the
\* event loop ended while the timer was still pending.
C3_PromptAtMostOnceAfterShow ==
  InfoTruthy(update_info) =>
    /\ calls["singleShot"] <= 1
    /\ pc \in {"m_exec", "m_return", "exited"} => calls["singleShot"] = 1
    /\ calls["show_update_dialog"] <= 1
    /\ calls["show_update_dialog"] = 1 =>
         (calls["show"] = 1 /\ calls["singleShot"] = 1)
    /\ calls["show_update_dialog"] + (IF timerPending THEN 1 ELSE 0)
         = calls["singleShot"]
    /\ (calls["singleShot"] = 1 /\ calls["show_update_dialog"] = 0) =>
         (timerPending /\ flow = "none")

C3_Witness ==
  /\ InfoTruthy(update_info)
  /\ calls["singleShot"] = 1
  /\ calls["show_update_dialog"] = 1
  /\ calls["show"] = 1
  /\ pc = "exited"

\* C4: with the ("app", "check_updates") toggle false, no Updater is built,
\* the client's check step is never invoked, check_for_updates() returns
\* False, and no prompt is scheduled or shown.
C4_ToggleOffSkipsClient ==
  ToggleOff =>
    /\ calls["Updater_check"] = 0
    /\ calls["client_check"] = 0
    /\ checkArgs = NoArgs
    /\ clientResult = NotCalled
    /\ calls["check_for_updates"] >= 1 =>
         (pc # "wrapper" /\ raised = "none" /\ update_info = FalseInfo)
    /\ calls["singleShot"] = 0
    /\ ~timerPending
    /\ calls["show_update_dialog"] = 0
    /\ flow = "none"

C4_Witness ==
  /\ ToggleOff
  /\ calls["check_for_updates"] = 1
  /\ update_info = FalseInfo
  /\ pc = "m_exec"

\* C5 as stated: when the client's check step raises, the exception stays
\* inside the update-check step: main() goes on as for "no update", nothing
\* reaches the wrapper and the process does not exit with status 1.
C5_CheckFailureIsContained ==
  clientResult.kind = "raise" =>
    /\ raised = "none"
    /\ pc # "wrapper"
    /\ exitStatus # 1
    /\ calls["singleShot"] = 0

\* C6: once the offer is declined with "Later", no flow Updater was built,
\* download_update and install_update were never called and no update
\* warning was shown; the "Later" step changes nothing but the flow state,
\* and Declined is final.
C6_DeclineHasNoEffect ==
  /\ [](flow = "Declined" =>
          /\ calls["Updater_flow"] = 0
          /\ calls["download_update"] = 0
          /\ calls["install_update"] = 0
          /\ calls["update_warning"] = 0
          /\ calls["excepthook"] = 0
          /\ flowArgs = NoArgs
          /\ update_file = Unset
          /\ installArg = Unset)
  /\ [][(flow # "Declined" /\ flow' = "Declined") =>
          /\ flow = "Offered"
          /\ UNCHANGED <<pc, envVars, calls, failVars, checkVars, shown,
                         flowArgs, update_file, installArg, installResult,
                         exitVars>>]_vars
  /\ [][flow = "Declined" =>
          (flow' = "Declined" /\ UNCHANGED <<calls, config>>)]_vars

C6_Witness ==
  /\ flow = "Declined"
  /\ calls["show_update_dialog"] = 1
  /\ pc = "exited"

\* C7: once download_update() has returned a falsy value, install_update is
\* never called, the flow is in DownloadFailed and stays there, and no
\* exception was raised by the flow.
C7_FalsyDownloadSkipsInstall ==
  /\ []((update_file # Unset /\ ~Truthy(update_file)) =>
          /\ flow = "DownloadFailed"
          /\ calls["download_update"] = 1
          /\ calls["install_update"] = 0
          /\ installArg = Unset
          /\ installResult = Unset
          /\ calls["update_warning"] = 0
          /\ calls["excepthook"] = 0
          /\ raised = "none")
  /\ [][flow = "DownloadFailed" => flow' = "DownloadFailed"]_vars

C7_Witness ==
  /\ update_file = ""
  /\ flow = "DownloadFailed"
  /\ calls["install_update"] = 0

\* C8: once download_update() has returned an artifact and install_update
\* has returned a falsy value for it, the "Update Failed" warning was shown
\* once, the flow is in InstallFailed and stays there, and download_update
\* and install_update were each called exactly once (never more in any run).
C8_FailedInstallWarnsOnce ==
  /\ [](/\ calls["download_update"] <= 1
        /\ calls["install_update"] <= 1
        /\ (Truthy(update_file) /\ installResult # Unset
              /\ ~Truthy(installResult)) =>
             /\ flow = "InstallFailed"
             /\ calls["update_warning"] = 1
             /\ calls["download_update"] = 1
             /\ calls["install_update"] = 1
             /\ installArg = update_file
             /\ calls["excepthook"] = 0)
  /\ [][flow = "InstallFailed" =>
          (flow' = "InstallFailed" /\ UNCHANGED calls)]_vars

C8_Witness ==
  /\ Truthy(update_file)
  /\ installResult = "False"
  /\ flow = "InstallFailed"
  /\ calls["update_warning"] = 1

\* some import raised, or an exception left main()
RunFailed == importFailed # "none" \/ raised # "none"

\* C9 as stated: at process exit the status is 0 when the event loop ended
\* normally, 1 when an import failed or an exception left main(), and 1 on
\* no other path.
C9_Original ==
  pc = "exited" =>
    /\ execCode = 0 => exitStatus = 0
    /\ RunFailed => exitStatus = 1
    /\ exitStatus = 1 => RunFailed

\* C9 amended: at process exit the status is the value app.exec_() returned
\* whenever main() returned (0 when the loop ended with code 0), it is 1
\* when an import failed or an exception left main(), and status 1 has no
\* other origin than these two or app.exec_() itself returning 1.
C9_ExitStatus ==
  pc = "exited" =>
    /\ execCode # -1 => (exitStatus = execCode /\ ~RunFailed)
    /\ execCode = 0 => exitStatus = 0
    /\ RunFailed => exitStatus = 1
    /\ exitStatus = 1 => (RunFailed \/ execCode = 1)
    /\ exitStatus # -1

C9_Witness ==
  /\ pc = "exited"
  /\ execCode = 1
  /\ exitStatus = 1
  /\ ~RunFailed

\* C10: setup_exception_handling is called at most once, and exactly once
\* before the configuration read, the directory test and creation, the
\* plugin manager's construction and load, the window's construction and
\* show, and the update check: none of these has happened without it.
C10_ReporterFirst ==
  /\ calls["setup_exception_handling"] <= 1
  /\ pc \in AfterReporter => calls["setup_exception_handling"] = 1
  /\ (\E n \in {"get_config", "exists", "makedirs", "dir_warning",
                "PluginManager", "load_plugins", "MainWindow", "show",
                "check_for_updates", "client_check", "singleShot"} :
        calls[n] > 0) => calls["setup_exception_handling"] = 1

C10_Witness ==
  /\ calls["setup_exception_handling"] = 1
  /\ calls["get_config"] = 0
  /\ pc = "m_config"

\* calls and surfaces of the update path: the check, the client, the timer,
\* the prompt, the flow's client calls and its warning
UpdateSteps ==
  {"check_for_updates", "Updater_check", "client_check", "singleShot",
   "show_update_dialog", "Updater_flow", "download_update", "install_update",
   "update_warning"}

\* C11: nothing of the update path has happened (no check call, no client
\* check, no timer, no prompt, no update warning) unless the window was
\* constructed and show() has returned; while main() is before or in show(),
\* every such counter is 0.
C11_UpdateOnlyAfterShow ==
  /\ (\E n \in UpdateSteps : calls[n] > 0) =>
       (calls["MainWindow"] = 1 /\ calls["show"] = 1)
  /\ (flow # "none" \/ timerPending \/ clientResult # NotCalled) =>
       calls["show"] = 1
  /\ calls["show"] = 0 => (\A n \in UpdateSteps : calls[n] = 0)

C11_Witness ==
  /\ calls["client_check"] = 1
  /\ calls["show"] = 1
  /\ calls["show_update_dialog"] = 1
  /\ calls["update_warning"] = 1

\* C12 as stated: an exception raised by download_update() or
\* install_update() in an accepted flow is caught inside the flow: it never
\* leaves start_update() to reach the process-wide exception hook.
C12_FlowFailuresCaughtLocally ==
  /\ flow # "Raised"
  /\ calls["excepthook"] = 0

\* C13: an exception that left main() is always taken by the wrapper; once
\* the wrapper has run, the error was printed once, the critical dialog was
\* attempted on the existing QApplication (shown once, or not at all when
\* the attempt raised), nothing was left unhandled and the process has
\* exited with status 1.
C13_WrapperAlwaysExitsOne ==
  /\ raised # "none" => pc \in {"wrapper", "exited"}
  /\ pc = "wrapper" => (raised # "none" /\ caught = "none")
  /\ (raised # "none" /\ pc = "exited") =>
       /\ caught = raised
       /\ exitStatus = 1
       /\ calls["console"] = 1
       /\ calls["critical_dialog"] \in {0, 1}
       /\ calls["QApplication"] = 1
       /\ calls["unhandled"] = 0

\* the dialog attempt raised and was swallowed
C13_Witness ==
  /\ raised = "check_for_updates"
  /\ pc = "exited"
  /\ calls["critical_dialog"] = 0
  /\ calls["console"] = 1
  /\ exitStatus = 1

\* C14: when the guarded collaborator imports fail in the main program, the
\* error is printed, the critical dialog is shown (the toolkit is loaded,
\* line 10 passed), and the process exits with status 1 without main()
\* having started: no reporter, no plugin manager, no window, no update
\* check, no exception wrapper.
C14_ImportFailureStopsBeforeMain ==
  (importFailed = "collaborator" /\ runAsMain) =>
    /\ pc \in {"import_dialog", "exited"}
    /\ calls["console"] = 1
    /\ calls["setup_exception_handling"] = 0
    /\ calls["get_config"] = 0
    /\ calls["PluginManager"] = 0
    /\ calls["load_plugins"] = 0
    /\ calls["MainWindow"] = 0
    /\ calls["show"] = 0
    /\ \A n \in UpdateSteps : calls[n] = 0
    /\ raised = "none" /\ caught = "none"
    /\ pc = "exited" =>
         (exitStatus = 1 /\ execCode = -1 /\ calls["critical_dialog"] = 1
           /\ calls["QApplication"] = 1)

C14_Witness ==
  /\ importFailed = "collaborator"
  /\ runAsMain
  /\ pc = "exited"
  /\ exitStatus = 1
  /\ calls["critical_dialog"] = 1

\* C15 as stated: a scheduled prompt has fired by the end of every run.
C15_Original ==
  (calls["singleShot"] = 1 /\ pc = "exited") =>
    (calls["show_update_dialog"] = 1 /\ ~timerPending)

\* C15 amended: nothing in the program cancels a scheduled prompt: a pending
\* timer stops being pending only by firing its callback, inside the running
\* event loop; a scheduled prompt that has not fired is still pending, and a
\* run ends with it unfired only when app.exec_() returned first.
C15_OnlyLoopEndDropsPrompt ==
  /\ [](timerPending =>
          (calls["singleShot"] = 1 /\ calls["show_update_dialog"] = 0))
  /\ []((calls["singleShot"] = 1 /\ calls["show_update_dialog"] = 0) =>
          /\ timerPending
          /\ pc \in {"m_exec", "m_return", "exited"}
          /\ pc # "m_exec" => execCode # -1)
  /\ [][(timerPending /\ ~timerPending') =>
          /\ pc = "m_exec" /\ pc' = "m_exec"
          /\ calls'["show_update_dialog"] = calls["show_update_dialog"] + 1
          /\ flow' = "Offered"]_vars

\* the loop ended within the delay: the prompt never fired
C15_Witness ==
  /\ calls["singleShot"] = 1
  /\ timerPending
  /\ calls["show_update_dialog"] = 0
  /\ pc = "exited"
  /\ exitStatus = 0

\* get_config().get("app", "version", "3.0.6") in the present state
ConfiguredVersionNow ==
  IF config.version = Unset THEN "3.0.6" ELSE config.version

\* C16: the step that opens the prompt displays, as current version, the
\* version the configuration holds at that step, and the step that accepts
\* builds the flow's Updater from the version the configuration holds at
\* that step ("3.0.6" when unset), whatever version the check step had read.
C16_VersionReadAtUse ==
  /\ [][(flow = "none" /\ flow' = "Offered") =>
          shown'.current = ConfiguredVersionNow]_vars
  /\ [][(flow = "Offered" /\ flow' = "Downloading") =>
          flowArgs' = <<ConfiguredVersionNow>>]_vars
  /\ [](checkArgs # NoArgs => checkArgs[1] \in Versions)
  /\ [](flowArgs # NoArgs => flowArgs[1] \in Versions)

\* the version was rewritten between the prompt and the acceptance
C16_Witness ==
  /\ flowArgs # NoArgs
  /\ shown.current = checkArgs[1]
  /\ flowArgs[1] # checkArgs[1]
  /\ flowArgs[1] = "3.0.6"
  /\ config.version = Unset

\* C17: once download_update() has returned an artifact and install_update,
\* called with exactly that artifact, has returned True, the flow is in
\* Installed and stays there; no warning was shown, each client step was
\* called once and is never called again, and the step that reaches
\* Installed leaves the process in its event loop with no exit status.
C17_InstalledIsQuiet ==
  /\ []((Truthy(update_file) /\ Truthy(installResult)) =>
          /\ flow = "Installed"
          /\ installArg = update_file
          /\ calls["Updater_flow"] = 1
          /\ calls["download_update"] = 1
          /\ calls["install_update"] = 1
          /\ calls["update_warning"] = 0
          /\ calls["excepthook"] = 0
          /\ raised = "none")
  /\ [][(flow # "Installed" /\ flow' = "Installed") =>
          /\ pc = "m_exec" /\ pc' = "m_exec"
          /\ exitStatus' = -1 /\ execCode' = -1
          /\ UNCHANGED calls]_vars
  /\ [][flow = "Installed" =>
          (flow' = "Installed" /\ UNCHANGED <<calls, update_file,
                                             installArg, installResult>>)]_vars

C17_Witness ==
  /\ flow = "Installed"
  /\ installResult = "True"
  /\ installArg = "/tmp/update.zip"
  /\ pc = "m_exec"
  /\ exitStatus = -1

\* C18: the steps of main() happen in order, each at most once: creation is
\* attempted only for an absent web folder, the warning is shown only when
\* the creation raised, the plugin manager is built and loaded only after
\* the directory step is over, the window is built only after load_plugins()
\* has returned and shown only after it was built; a run in which makedirs
\* raised reaches the event loop with every one of these steps done.
C18_BootstrapOrder ==
  /\ \A n \in {"exists", "makedirs", "dir_warning", "PluginManager",
               "load_plugins", "MainWindow", "show"} : calls[n] <= 1
  /\ calls["makedirs"] = 1 <=> (folderExists = "no" /\ pc # "m_makedirs")
  /\ calls["dir_warning"] = 1 <=> makedirsRaised
  /\ makedirsRaised => calls["makedirs"] = 1
  /\ calls["PluginManager"] = 1 =>
       /\ calls["exists"] = 1
       /\ folderExists # "unknown"
       /\ pc # "m_makedirs"
  /\ calls["load_plugins"] = 1 =>
       (calls["PluginManager"] = 1 /\ raised # "PluginManager")
  /\ calls["MainWindow"] = 1 =>
       (calls["load_plugins"] = 1 /\ raised \notin PluginFailures)
  /\ calls["show"] = 1 => calls["MainWindow"] = 1
  /\ pc \in AfterShow =>
       /\ calls["exists"] = 1
       /\ calls["PluginManager"] = 1
       /\ calls["load_plugins"] = 1
       /\ calls["MainWindow"] = 1
       /\ calls["show"] = 1

\* the degraded path: creation raised, every later step still ran
C18_Witness ==
  /\ makedirsRaised
  /\ folderExists = "no"
  /\ calls["dir_warning"] = 1
  /\ calls["load_plugins"] = 1
  /\ calls["show"] = 1
  /\ pc = "m_exec"

\* flow states that only an accepted prompt leads to
Accepted ==
  {"Downloading", "DownloadFailed", "Installing", "InstallFailed",
   "Installed", "Raised"}

\* C19: download_update (and with it install_update) has been called only
\* if the toggle is on, the client's check returned a truthy UpdateInfo that
\* main() holds, the prompt has fired and was accepted; as long as the check
\* has not returned a truthy UpdateInfo, no timer, no prompt, no flow
\* Updater, no download and no install has happened.
C19_DownloadOnlyAfterAcceptedOffer ==
  /\ (calls["download_update"] > 0 \/ calls["install_update"] > 0
        \/ calls["Updater_flow"] > 0) =>
       /\ ~ToggleOff
       /\ calls["client_check"] = 1
       /\ InfoTruthy(clientResult)
       /\ update_info = clientResult
       /\ calls["singleShot"] = 1
       /\ calls["show_update_dialog"] = 1
       /\ flow \in Accepted
       /\ calls["download_update"] = 1
  /\ calls["install_update"] > 0 => Truthy(update_file)
  /\ ~InfoTruthy(update_info) =>
       /\ calls["singleShot"] = 0
       /\ ~timerPending
       /\ calls["show_update_dialog"] = 0
       /\ flow = "none"
       /\ shown = NothingShown
       /\ calls["Updater_flow"] = 0
       /\ calls["download_update"] = 0
       /\ calls["install_update"] = 0

C19_Witness ==
  /\ calls["download_update"] = 1
  /\ calls["install_update"] = 1
  /\ InfoTruthy(update_info)
  /\ flow = "Installed"
  /\ pc = "exited"

\* C20: the run and its twin, which differ in the UpdateInfo the check
\* returned and in the configured manifest URL, build the flow's Updater
\* from the same arguments - the configured version and nothing else - and
\* call install_update with the same argument, the value download_update()
\* returned; what differs between them is what the prompt displays as the
\* offered version and notes.
C20_FlowCallsIgnoreUpdateInfo ==
  /\ twin.flowArgs = flowArgs
  /\ twin.installArg = installArg
  /\ flowArgs # NoArgs => (Len(flowArgs) = 1 /\ flowArgs[1] \in Versions)
  /\ installArg # Unset => installArg = update_file
  /\ shown # NothingShown =>
       /\ shown.candidate = update_info.version
       /\ twin.shown.candidate = twin.update_info.version
       /\ twin.shown.current = shown.current
  /\ InfoTruthy(update_info) <=> InfoTruthy(twin.update_info)

\* two runs that differ in the offer and in the manifest URL, after install
C20_Witness ==
  /\ InfoTruthy(update_info)
  /\ twin.update_info # update_info
  /\ twin.checkArgs # checkArgs
  /\ twin.shown # shown
  /\ flowArgs # NoArgs
  /\ twin.flowArgs = flowArgs
  /\ installArg = "/tmp/update.zip"
  /\ twin.installArg = installArg

====
